---- MODULE Spec2Model ----
(***************************************************************************)
(* Model of import.py: the conversion of below dump frames to OpenMetrics  *)
(* lines (sanitize_metric_name, sanitize_metric_value, convert_frame,      *)
(* convert) and the driver do_import (dump, convert, write, ingest).       *)
(*                                                                         *)
(* Text is modelled as sequences of one-character strings (raw values,     *)
(* timestamps) or of name tokens (metric names: "." and "_" are tokens of  *)
(* their own, every other token is a "."-free chunk).                      *)
(***************************************************************************)
EXTENDS Integers, Sequences, FiniteSets, TLC

VARIABLES
  pc,            \* position of do_import: idle, dump, convert, eof, ingest, done, failed
  runs,          \* number of do_import invocations so far in this process
  prefix,        \* argument prefix of the current do_import
  cat,           \* index in METRICS of the category being processed
  data,          \* return value of dump for the current category
  dumped,        \* the data returned by dump for each category of this run
  idx,           \* index in data of the next frame of convert's loop
  converted,     \* local list "converted" of convert
  f,             \* lines written to the temporary file
  ingested,      \* the file contents each ingest call of this run was given
  err,           \* the exception that ended the run, "none" if none
  WARNED,        \* module-level set of unknown keys already warned about
  log,           \* keys of the "Unknown key" warnings logged in this run, in order
  warnedAtStart, \* value of WARNED when the current do_import was invoked
  frame,         \* argument of the last convert_frame call
  res,           \* outcome of the last convert_frame call
  raw,           \* argument of sanitize_metric_value (value-sanitizer specification)
  val            \* outcome of sanitize_metric_value (value-sanitizer specification)

vars == << pc, runs, prefix, cat, data, dumped, idx, converted, f, ingested,
           err, WARNED, log, warnedAtStart, frame, res, raw, val >>

----------------------------------------------------------------------------
(* Bounds *)

MaxFrames == 2     \* frames returned by one dump
MaxRuns == 2       \* do_import invocations in one process
MaxLen == 3        \* characters of a raw value given to sanitize_metric_value

----------------------------------------------------------------------------
(* Constants of import.py *)

TIMESTAMP_KEY == "Timestamp"

IGNORED_KEYS == { TIMESTAMP_KEY, "Datetime", "Hostname", "Kernel Version", "OS Release" }

GAUGE == "GAUGE"
COUNTER == "COUNTER"

MetricType == { GAUGE, COUNTER }

Metric(prometheus_key, metric_type) ==
  [ prometheus_key |-> prometheus_key, metric_type |-> metric_type ]

NETWORKING_METRICS ==
  ("Icmp6InDestUnreachs" :> Metric(<<"icmp6", ".", "in_dest_unreachs">>, COUNTER)) @@
  ("Icmp6InErrs" :> Metric(<<"icmp6", ".", "in_errors">>, COUNTER)) @@
  ("Icmp6InMsg/s" :> Metric(<<"icmp6", ".", "in_msgs_per_sec">>, GAUGE)) @@
  ("Icmp6OutDestUnreachs" :> Metric(<<"icmp6", ".", "out_dest_unreachs">>, COUNTER)) @@
  ("Icmp6OutErrs" :> Metric(<<"icmp6", ".", "out_errors">>, COUNTER)) @@
  ("Icmp6OutMsg/s" :> Metric(<<"icmp6", ".", "out_msgs_per_sec">>, GAUGE)) @@
  ("IcmpInDestUnreachs" :> Metric(<<"icmp", ".", "in_dest_unreachs">>, COUNTER)) @@
  ("IcmpInErrs" :> Metric(<<"icmp", ".", "in_errors">>, COUNTER)) @@
  ("IcmpInMsg/s" :> Metric(<<"icmp", ".", "in_msgs_per_sec">>, GAUGE)) @@
  ("IcmpOutDestUnreachs" :> Metric(<<"icmp", ".", "out_dest_unreachs">>, COUNTER)) @@
  ("IcmpOutErrs" :> Metric(<<"icmp", ".", "out_errors">>, COUNTER)) @@
  ("IcmpOutMsg/s" :> Metric(<<"icmp", ".", "out_msgs_per_sec">>, GAUGE)) @@
  ("Ip6ForwDatagrams/s" :> Metric(<<"ip6", ".", "out_forw_datagrams_per_sec">>, GAUGE)) @@
  ("Ip6InAddrErrs" :> Metric(<<"ip6", ".", "in_addr_errors">>, COUNTER)) @@
  ("Ip6InBcastOctets/s" :> Metric(<<"ip6", ".", "in_bcast_octets_per_sec">>, GAUGE)) @@
  ("Ip6InDeliversPkts/s" :> Metric(<<"ip6", ".", "in_delivers_pkts_per_sec">>, GAUGE)) @@
  ("Ip6InDiscardsPkts/s" :> Metric(<<"ip6", ".", "in_discards_pkts_per_sec">>, GAUGE)) @@
  ("Ip6InHdrErrs" :> Metric(<<"ip6", ".", "in_hdr_errors">>, COUNTER)) @@
  ("Ip6InMcastOctets/s" :> Metric(<<"ip6", ".", "in_mcast_octets_per_sec">>, GAUGE)) @@
  ("Ip6InMcastPkts/s" :> Metric(<<"ip6", ".", "in_mcast_pkts_per_sec">>, GAUGE)) @@
  ("Ip6InNoRoutesPkts/s" :> Metric(<<"ip6", ".", "in_no_routes_pkts_per_sec">>, GAUGE)) @@
  ("Ip6InOctets/s" :> Metric(<<"ip6", ".", "in_octets_per_sec">>, GAUGE)) @@
  ("Ip6InPkts/s" :> Metric(<<"ip6", ".", "in_receives_pkts_per_sec">>, GAUGE)) @@
  ("Ip6OutBcastOctets/s" :> Metric(<<"ip6", ".", "out_bcast_octets_per_sec">>, GAUGE)) @@
  ("Ip6OutMcastOctets/s" :> Metric(<<"ip6", ".", "out_mcast_octets_per_sec">>, GAUGE)) @@
  ("Ip6OutMcastPkts/s" :> Metric(<<"ip6", ".", "out_mcast_pkts_per_sec">>, GAUGE)) @@
  ("Ip6OutNoRoutesPkts/s" :> Metric(<<"ip6", ".", "out_no_routes_pkts_per_sec">>, GAUGE)) @@
  ("Ip6OutOctets/s" :> Metric(<<"ip6", ".", "out_octets_per_sec">>, GAUGE)) @@
  ("Ip6OutReqs/s" :> Metric(<<"ip6", ".", "out_requests_per_sec">>, GAUGE)) @@
  ("IpForwDatagrams/s" :> Metric(<<"ip", ".", "forw_datagrams_per_sec">>, GAUGE)) @@
  ("IpForwPkts/s" :> Metric(<<"ip", ".", "forwarding_pkts_per_sec">>, GAUGE)) @@
  ("IpInBcastOctets/s" :> Metric(<<"ip", ".", "in_bcast_octets_per_sec">>, GAUGE)) @@
  ("IpInBcastPkts/s" :> Metric(<<"ip", ".", "in_bcast_pkts_per_sec">>, GAUGE)) @@
  ("IpInDeliversPkts/s" :> Metric(<<"ip", ".", "in_delivers_pkts_per_sec">>, GAUGE)) @@
  ("IpInDiscardPkts/s" :> Metric(<<"ip", ".", "in_discards_pkts_per_sec">>, GAUGE)) @@
  ("IpInMcastOctets/s" :> Metric(<<"ip", ".", "in_mcast_octets_per_sec">>, GAUGE)) @@
  ("IpInMcastPkts/s" :> Metric(<<"ip", ".", "in_mcast_pkts_per_sec">>, GAUGE)) @@
  ("IpInNoEctPkts/s" :> Metric(<<"ip", ".", "in_no_ect_pkts_per_sec">>, GAUGE)) @@
  ("IpInOctets/s" :> Metric(<<"ip", ".", "in_octets_per_sec">>, GAUGE)) @@
  ("IpInPkts/s" :> Metric(<<"ip", ".", "in_receives_pkts_per_sec">>, GAUGE)) @@
  ("IpOutBcastOctets/s" :> Metric(<<"ip", ".", "out_bcast_octets_per_sec">>, GAUGE)) @@
  ("IpOutBcastPkts/s" :> Metric(<<"ip", ".", "out_bcast_pkts_per_sec">>, GAUGE)) @@
  ("IpOutDiscardPkts/s" :> Metric(<<"ip", ".", "out_discards_pkts_per_sec">>, GAUGE)) @@
  ("IpOutMcastOctets/s" :> Metric(<<"ip", ".", "out_mcast_octets_per_sec">>, GAUGE)) @@
  ("IpOutMcastPkts/s" :> Metric(<<"ip", ".", "out_mcast_pkts_per_sec">>, GAUGE)) @@
  ("IpOutNoRoutesPkts/s" :> Metric(<<"ip", ".", "out_no_routes_pkts_per_sec">>, GAUGE)) @@
  ("IpOutOctets/s" :> Metric(<<"ip", ".", "out_octets_per_sec">>, GAUGE)) @@
  ("IpOutReqs/s" :> Metric(<<"ip", ".", "out_requests_per_sec">>, GAUGE))

SYSTEM_METRICS ==
  ("Blocked Procs" :> Metric(<<"stat", ".", "blocked_processes">>, GAUGE)) @@
  ("Boot Time Epoch" :> Metric(<<"stat", ".", "boot_time_epoch_secs">>, COUNTER)) @@
  ("Context Switches" :> Metric(<<"stat", ".", "context_switches">>, COUNTER)) @@
  ("Free" :> Metric(<<"mem", ".", "free">>, GAUGE)) @@
  ("OOM Kills" :> Metric(<<"vm", ".", "oom_kill">>, COUNTER)) @@
  ("Page In" :> Metric(<<"vm", ".", "pgpgin_per_sec">>, GAUGE)) @@
  ("Page Out" :> Metric(<<"vm", ".", "pgpgout_per_sec">>, GAUGE)) @@
  ("Pgscan Direct" :> Metric(<<"vm", ".", "pgscan_direct_per_sec">>, GAUGE)) @@
  ("Pgscan Kswapd" :> Metric(<<"vm", ".", "pgscan_kswapd_per_sec">>, GAUGE)) @@
  ("Pgsteal Direct" :> Metric(<<"vm", ".", "pgsteal_direct_per_sec">>, GAUGE)) @@
  ("Pgsteal Kswapd" :> Metric(<<"vm", ".", "pgsteal_kswapd_per_sec">>, GAUGE)) @@
  ("Running Procs" :> Metric(<<"stat", ".", "running_processes">>, GAUGE)) @@
  ("Swap In" :> Metric(<<"vm", ".", "pswpin_per_sec">>, GAUGE)) @@
  ("Swap Out" :> Metric(<<"vm", ".", "pswpout_per_sec">>, GAUGE)) @@
  ("System" :> Metric(<<"cpu", ".", "system_pct">>, GAUGE)) @@
  ("Total" :> Metric(<<"mem", ".", "total_gb">>, GAUGE)) @@
  ("Total Interrupts" :> Metric(<<"tat", ".", "total_interrupt_ct">>, COUNTER)) @@
  ("Total Procs" :> Metric(<<"stat", ".", "total_processes">>, COUNTER)) @@
  ("Usage" :> Metric(<<"cpu", ".", "usage_pct">>, GAUGE)) @@
  ("User" :> Metric(<<"cpu", ".", "user_pct">>, GAUGE)) @@
  ("SoftIrq" :> Metric(<<"cpu", ".", "softirq_pct">>, GAUGE))

METRICS == << [category |-> "network", schema |-> NETWORKING_METRICS],
              [category |-> "system", schema |-> SYSTEM_METRICS] >>

----------------------------------------------------------------------------
(* Exceptions *)

NoError == "none"
TimestampError == "Timestamp not found in frame"
InvalidValueError == "Invalid value found for key"
DumpError == "Failed to dump data"
IngestError == "CalledProcessError"

----------------------------------------------------------------------------
(* Text helpers *)

\* Characters str.split() treats as separators
Whitespace == { " ", "\t" }

\* str.replace(old, new) for a one-character old and a one-character new
Replace(s, old, new) == [ i \in DOMAIN s |-> IF s[i] = old THEN new ELSE s[i] ]

\* str.replace(old, "") for a one-character old
Remove(s, old) == SelectSeq(s, LAMBDA c : c # old)

\* str.split(): the maximal runs of non-whitespace characters, in order
RECURSIVE SplitFrom(_, _, _, _)
SplitFrom(s, i, cur, parts) ==
  IF i > Len(s)
  THEN IF cur = << >> THEN parts ELSE Append(parts, cur)
  ELSE IF s[i] \in Whitespace
       THEN SplitFrom(s, i + 1, << >>, IF cur = << >> THEN parts ELSE Append(parts, cur))
       ELSE SplitFrom(s, i + 1, Append(cur, s[i]), parts)

split(s) == SplitFrom(s, 1, << >>, << >>)

----------------------------------------------------------------------------
(* Sanitizers *)

sanitize_metric_name(name) == Replace(name, ".", "_")

\* Variant: a blank value is turned into an empty token instead of being rejected
sanitize_metric_value_NoRaise(key, rawValue) ==
  LET parts == split(rawValue) IN
  IF parts = << >>
  THEN [ raised |-> NoError, val |-> << >> ]
  ELSE [ raised |-> NoError, val |-> Replace(Remove(parts[1], "%"), "?", "0") ]

\* Variant: only a "%" that ends the token is dropped (rstrip instead of replace)
sanitize_metric_value_TrailingOnly(key, rawValue) ==
  LET parts == split(rawValue)
      tok == parts[1]
  IN
  IF parts = << >>
  THEN [ raised |-> InvalidValueError, val |-> << >> ]
  ELSE [ raised |-> NoError,
         val |-> Replace(IF tok[Len(tok)] = "%" THEN SubSeq(tok, 1, Len(tok) - 1) ELSE tok,
                         "?", "0") ]

sanitize_metric_value(key, rawValue) ==
  LET parts == split(rawValue) IN
  IF parts = << >>
  THEN [ raised |-> InvalidValueError, val |-> << >> ]
  ELSE [ raised |-> NoError, val |-> Replace(Remove(parts[1], "%"), "?", "0") ]

----------------------------------------------------------------------------
(* Lines of the OpenMetrics text *)

TypeLine(prom_key, type_str) ==
  [ kind |-> "TYPE", name |-> prom_key, type |-> type_str, help |-> "",
    value |-> << >>, timestamp |-> << >> ]

HelpLine(prom_key, k) ==
  [ kind |-> "HELP", name |-> prom_key, type |-> "", help |-> k,
    value |-> << >>, timestamp |-> << >> ]

ValueLine(prom_key, prom_value, timestamp) ==
  [ kind |-> "VALUE", name |-> prom_key, type |-> "", help |-> "",
    value |-> prom_value, timestamp |-> timestamp ]

EofLine ==
  [ kind |-> "EOF", name |-> << >>, type |-> "", help |-> "",
    value |-> << >>, timestamp |-> << >> ]

----------------------------------------------------------------------------
(* Frames: a frame is the sequence of its (key, value) items in dict order *)

Field(k, v) == [ k |-> k, v |-> v ]

Keys(fr) == { fr[i].k : i \in DOMAIN fr }

\* frame.get(key, None); None is modelled by the empty text, which "not" treats alike
Get(fr, key) ==
  IF key \in Keys(fr)
  THEN (CHOOSE fld \in { fr[i] : i \in DOMAIN fr } : fld.k = key).v
  ELSE << >>

----------------------------------------------------------------------------
(* convert_frame *)

\* Variant: the warning is not remembered, every occurrence is logged
UnknownKey_WarnsEveryTime(st, k) ==
  IF k \notin IGNORED_KEYS
  THEN [ st EXCEPT !.warned = @ \cup { k }, !.warnings = Append(@, k) ]
  ELSE st

\* Variant: the structural keys are not exempted
UnknownKey_WarnsIgnored(st, k) ==
  IF k \notin st.warned
  THEN [ st EXCEPT !.warned = @ \cup { k }, !.warnings = Append(@, k) ]
  ELSE st

\* "Handle unknown metrics": warn once about a key that is not ignored, then skip it
UnknownKey(st, k) ==
  IF k \notin IGNORED_KEYS /\ k \notin st.warned
  THEN [ st EXCEPT !.warned = @ \cup { k }, !.warnings = Append(@, k) ]
  ELSE st

\* Variant: the HELP descriptor is emitted ahead of the TYPE descriptor
EmitLines_HelpFirst(prom_key, type_str, k, prom_value, timestamp) ==
  << HelpLine(prom_key, k),
     TypeLine(prom_key, type_str),
     ValueLine(prom_key, prom_value, timestamp) >>

\* The three lines appended for one metric: type descriptor, help descriptor, value
EmitLines(prom_key, type_str, k, prom_value, timestamp) ==
  << TypeLine(prom_key, type_str),
     HelpLine(prom_key, k),
     ValueLine(prom_key, prom_value, timestamp) >>

\* One iteration of "for k, v in frame.items()"; st is the state of the call
ConvertField(st, fld, schema, pfx, timestamp) ==
  IF st.raised # NoError THEN st
  ELSE IF fld.k \notin DOMAIN schema
  THEN UnknownKey(st, fld.k)
  ELSE LET metric == schema[fld.k]
           prom_key == sanitize_metric_name(pfx \o << "_" >> \o metric.prometheus_key)
           prom_value == sanitize_metric_value(fld.k, fld.v)
       IN IF prom_value.raised # NoError
          THEN [ st EXCEPT !.raised = prom_value.raised, !.key = fld.k ]
          ELSE IF metric.metric_type \notin MetricType
          THEN st
          ELSE [ st EXCEPT !.converted = @ \o
                   EmitLines(prom_key,
                             IF metric.metric_type = GAUGE THEN "gauge" ELSE "counter",
                             fld.k, prom_value.val, timestamp) ]

RECURSIVE ConvertFields(_, _, _, _, _, _)
ConvertFields(st, fr, i, schema, pfx, timestamp) ==
  IF i > Len(fr) THEN st
  ELSE ConvertFields(ConvertField(st, fr[i], schema, pfx, timestamp),
                     fr, i + 1, schema, pfx, timestamp)

\* Variant: a frame without timestamp is skipped instead of rejected
convert_frame_SkipsUntimedFrame(fr, schema, pfx, warned) ==
  LET timestamp == Get(fr, TIMESTAMP_KEY)
      st0 == [ raised |-> NoError, key |-> "", converted |-> << >>,
               warned |-> warned, warnings |-> << >> ]
  IN IF timestamp = << >>
     THEN st0
     ELSE ConvertFields(st0, fr, 1, schema, pfx, timestamp)

\* Variant: only an absent Timestamp is rejected ("is None"), an empty one is used
convert_frame_AbsentOnly(fr, schema, pfx, warned) ==
  LET timestamp == Get(fr, TIMESTAMP_KEY)
      st0 == [ raised |-> NoError, key |-> "", converted |-> << >>,
               warned |-> warned, warnings |-> << >> ]
  IN IF TIMESTAMP_KEY \notin Keys(fr)
     THEN [ st0 EXCEPT !.raised = TimestampError ]
     ELSE ConvertFields(st0, fr, 1, schema, pfx, timestamp)

\* The outcome of convert_frame(frame, schema, prefix) when the global is "warned":
\* raised/key the exception and the key it was raised at, converted the local list
\* (the return value when nothing is raised), warned the global afterwards,
\* warnings the keys logged as unknown, in order
convert_frame(fr, schema, pfx, warned) ==
  LET timestamp == Get(fr, TIMESTAMP_KEY)
      st0 == [ raised |-> NoError, key |-> "", converted |-> << >>,
               warned |-> warned, warnings |-> << >> ]
  IN IF timestamp = << >>
     THEN [ st0 EXCEPT !.raised = TimestampError ]
     ELSE ConvertFields(st0, fr, 1, schema, pfx, timestamp)

----------------------------------------------------------------------------
(* Inputs *)

T100 == << "1", "0", "0" >>
T160 == << "1", "6", "0" >>

\* Frames a dump may hold: complete frames, frames without or with an empty
\* Timestamp, frames with unknown and ignored keys, frames with blank values
FrameSamples ==
  { << Field("Timestamp", T100), Field("Usage", << "5", "%" >>), Field("Bogus", << "7" >>),
       Field("IcmpInErrs", << "5" >>) >>,
    << Field("Timestamp", T160), Field("IcmpInErrs", << "?", " ", "k" >>),
       Field("IpInPkts/s", << "7" >>) >>,
    << Field("Usage", << "7" >>) >>,
    << Field("Timestamp", << >>), Field("Bogus", << "7" >>) >>,
    << Field("Timestamp", T100), Field("Bogus", << "7" >>), Field("Usage", << "\t" >>),
       Field("IcmpInErrs", << >>) >>,
    << Field("Datetime", << "x" >>), Field("Hostname", << "h" >>),
       Field("Timestamp", T160), Field("Bogus", << "7" >>) >>,
    << Field("Timestamp", T100), Field("IpInPkts/s", << "5" >>),
       Field("IcmpInErrs", << " " >>), Field("Bogus", << "7" >>) >> }

\* Decoded dumps: the sequences of at most MaxFrames frames
RECURSIVE SeqsUpTo(_, _)
SeqsUpTo(S, n) ==
  IF n = 0 THEN { << >> }
  ELSE LET shorter == SeqsUpTo(S, n - 1)
       IN shorter \cup { Append(s, x) : s \in { t \in shorter : Len(t) = n - 1 }, x \in S }

DataSamples == SeqsUpTo(FrameSamples, MaxFrames)

\* Value of --prefix: a prefix that itself holds a "."
Prefixes == { << "a", ".", "b" >> }

\* Characters of the raw values given to sanitize_metric_value
Alphabet == { " ", "\t", "%", "?", "5", "k" }

RawValues == SeqsUpTo(Alphabet, MaxLen)

NoCall == [ raised |-> NoError, key |-> "", converted |-> << >>,
            warned |-> { }, warnings |-> << >> ]

NoValue == [ raised |-> NoError, val |-> << >> ]

----------------------------------------------------------------------------
(* do_import *)

Init ==
  /\ pc = "idle"
  /\ runs = 0
  /\ prefix = << >>
  /\ cat = 1
  /\ data = << >>
  /\ dumped = << >>
  /\ idx = 1
  /\ converted = << >>
  /\ f = << >>
  /\ ingested = << >>
  /\ err = NoError
  /\ WARNED = { }
  /\ log = << >>
  /\ warnedAtStart = { }
  /\ frame = << >>
  /\ res = NoCall
  /\ raw = << >>
  /\ val = NoValue

\* Variant: do_import clears the set of warned keys when it is entered
do_import_ResetsWarned(pfx) ==
  /\ pc \in { "idle", "done", "failed" }
  /\ runs < MaxRuns
  /\ runs' = runs + 1
  /\ prefix' = pfx
  /\ pc' = "dump"
  /\ cat' = 1
  /\ data' = << >>
  /\ dumped' = << >>
  /\ idx' = 1
  /\ converted' = << >>
  /\ f' = << >>
  /\ ingested' = << >>
  /\ err' = NoError
  /\ log' = << >>
  /\ warnedAtStart' = WARNED
  /\ frame' = << >>
  /\ res' = NoCall
  /\ WARNED' = { }
  /\ UNCHANGED << raw, val >>

\* do_import(begin, end, source, prefix) is entered: the temporary file is opened
do_import(pfx) ==
  /\ pc \in { "idle", "done", "failed" }
  /\ runs < MaxRuns
  /\ runs' = runs + 1
  /\ prefix' = pfx
  /\ pc' = "dump"
  /\ cat' = 1
  /\ data' = << >>
  /\ dumped' = << >>
  /\ idx' = 1
  /\ converted' = << >>
  /\ f' = << >>
  /\ ingested' = << >>
  /\ err' = NoError
  /\ log' = << >>
  /\ warnedAtStart' = WARNED
  /\ frame' = << >>
  /\ res' = NoCall
  /\ UNCHANGED << WARNED, raw, val >>

\* dump(source, category, begin, end) returns the decoded frames; convert starts
dump(d) ==
  /\ pc = "dump"
  /\ data' = d
  /\ dumped' = Append(dumped, d)
  /\ idx' = 1
  /\ converted' = << >>
  /\ frame' = << >>
  /\ res' = NoCall
  /\ pc' = "convert"
  /\ UNCHANGED << runs, prefix, cat, f, ingested, err, WARNED, log, warnedAtStart,
                  raw, val >>

\* dump raises: below exited non-zero or its output does not decode
dumpFails ==
  /\ pc = "dump"
  /\ pc' = "failed"
  /\ err' = DumpError
  /\ UNCHANGED << runs, prefix, cat, data, dumped, idx, converted, f, ingested,
                  WARNED, log, warnedAtStart, frame, res, raw, val >>

\* One iteration of convert's loop: converted += convert_frame(frame, schema, prefix)
convertStep ==
  /\ pc = "convert"
  /\ idx <= Len(data)
  /\ LET r == convert_frame(data[idx], METRICS[cat].schema, prefix, WARNED) IN
       /\ frame' = data[idx]
       /\ res' = r
       /\ WARNED' = r.warned
       /\ log' = log \o r.warnings
       /\ IF r.raised # NoError
          THEN /\ pc' = "failed"
               /\ err' = r.raised
               /\ UNCHANGED << idx, converted >>
          ELSE /\ converted' = converted \o r.converted
               /\ idx' = idx + 1
               /\ UNCHANGED << pc, err >>
  /\ UNCHANGED << runs, prefix, cat, data, dumped, f, ingested, warnedAtStart, raw, val >>

\* Variant: the end-of-stream marker is written inside the loop over METRICS
writelines_EofPerCategory ==
  /\ pc = "convert"
  /\ idx > Len(data)
  /\ f' = Append(f \o converted, EofLine)
  /\ IF cat < Len(METRICS)
     THEN /\ cat' = cat + 1
          /\ pc' = "dump"
     ELSE /\ pc' = "eof"
          /\ UNCHANGED cat
  /\ UNCHANGED << runs, prefix, data, dumped, idx, converted, ingested, err, WARNED,
                  log, warnedAtStart, frame, res, raw, val >>

\* convert returns its list and do_import writes it: f.writelines(metrics)
writelines ==
  /\ pc = "convert"
  /\ idx > Len(data)
  /\ f' = f \o converted
  /\ IF cat < Len(METRICS)
     THEN /\ cat' = cat + 1
          /\ pc' = "dump"
     ELSE /\ pc' = "eof"
          /\ UNCHANGED cat
  /\ UNCHANGED << runs, prefix, data, dumped, idx, converted, ingested, err, WARNED,
                  log, warnedAtStart, frame, res, raw, val >>

\* f.write("# EOF\n"); f.flush(); os.chmod(f.name, 0o644)
writeEof ==
  /\ pc = "eof"
  /\ f' = Append(f, EofLine)
  /\ pc' = "ingest"
  /\ UNCHANGED << runs, prefix, cat, data, dumped, idx, converted, ingested, err,
                  WARNED, log, warnedAtStart, frame, res, raw, val >>

\* ingest(f.name): the three docker commands succeed (ok) or one of them fails
ingest(ok) ==
  /\ pc = "ingest"
  /\ ingested' = Append(ingested, f)
  /\ IF ok
     THEN /\ pc' = "done"
          /\ UNCHANGED err
     ELSE /\ pc' = "failed"
          /\ err' = IngestError
  /\ UNCHANGED << runs, prefix, cat, data, dumped, idx, converted, f, WARNED, log,
                  warnedAtStart, frame, res, raw, val >>

Next ==
  \/ \E pfx \in Prefixes : do_import(pfx)
  \/ \E d \in DataSamples : dump(d)
  \/ dumpFails
  \/ convertStep
  \/ writelines
  \/ writeEof
  \/ \E ok \in BOOLEAN : ingest(ok)

Spec == Init /\ [][Next]_vars

----------------------------------------------------------------------------
(* sanitize_metric_value applied to every raw value of at most MaxLen characters *)

InitValue ==
  /\ pc = "value"
  /\ runs = 0
  /\ prefix = << >>
  /\ cat = 1
  /\ data = << >>
  /\ dumped = << >>
  /\ idx = 1
  /\ converted = << >>
  /\ f = << >>
  /\ ingested = << >>
  /\ err = NoError
  /\ WARNED = { }
  /\ log = << >>
  /\ warnedAtStart = { }
  /\ frame = << >>
  /\ res = NoCall
  /\ raw \in RawValues
  /\ val = NoValue

sanitizeValue ==
  /\ pc = "value"
  /\ val' = sanitize_metric_value("Usage", raw)
  /\ pc' = "valueDone"
  /\ UNCHANGED << runs, prefix, cat, data, dumped, idx, converted, f, ingested, err,
                  WARNED, log, warnedAtStart, frame, res, raw >>

NextValue == sanitizeValue

SpecValue == InitValue /\ [][NextValue]_vars

----------------------------------------------------------------------------
(* Vocabulary of the properties *)

\* The schema of the category being converted
schema == METRICS[cat].schema

\* frame/res describe a convert_frame call made by the convert in progress
Called ==
  /\ frame # << >>
  /\ \/ pc = "convert"
     \/ pc = "failed" /\ err \in { TimestampError, InvalidValueError }

\* The conversion of every category went through in this run
Converted == pc \in { "eof", "ingest", "done" } \/ (pc = "failed" /\ err = IngestError)

Blank(v) == \A i \in DOMAIN v : v[i] \in Whitespace

HasTimestamp(fr) == \E i \in DOMAIN fr : fr[i].k = TIMESTAMP_KEY /\ fr[i].v # << >>

\* Positions of the fields of fr that sch recognises and whose value is blank
BlankFields(fr, sch) == { i \in DOMAIN fr : fr[i].k \in DOMAIN sch /\ Blank(fr[i].v) }

Min(S) == CHOOSE x \in S : \A y \in S : x <= y

\* Source field names of the HELP lines of a list of lines
HelpKeys(lines) == { lines[i].help : i \in { j \in DOMAIN lines : lines[j].kind = "HELP" } }

\* Number of "Unknown key" warnings logged for k in this run
Warnings(k) == Cardinality({ i \in DOMAIN log : log[i] = k })

\* Field names of the dump of category c that are neither in its schema nor ignored
UnknownKeysOf(c) ==
  UNION { Keys(dumped[c][i]) \ (DOMAIN METRICS[c].schema \cup IGNORED_KEYS) :
          i \in DOMAIN dumped[c] }

RECURSIVE Flatten(_)
Flatten(ss) == IF ss = << >> THEN << >> ELSE Head(ss) \o Flatten(Tail(ss))

\* The lines of the frames of d, frame after frame
LinesOf(d, sch, pfx) ==
  Flatten([ i \in DOMAIN d |-> convert_frame(d[i], sch, pfx, { }).converted ])

----------------------------------------------------------------------------
(* C1 *)

\* C1 (as stated): a recognised field with a blank value is skipped and convert_frame
\* still returns normally, with the lines of every other recognised field of the frame.
C1_BlankFieldSkipped ==
  (Called /\ HasTimestamp(frame) /\ BlankFields(frame, schema) # { })
    => /\ res.raised = NoError
       /\ HelpKeys(res.converted) =
            { frame[i].k : i \in { j \in DOMAIN frame : frame[j].k \in DOMAIN schema }
                                 \ BlankFields(frame, schema) }

\* C1 (amended): in a frame with a non-empty Timestamp, the first recognised field
\* with a blank value makes convert_frame raise the invalid-value error at that field;
\* the error ends the run and nothing is ingested.  A frame with a Timestamp and no
\* such field is converted without error.
C1_BlankFieldRaises ==
  (Called /\ HasTimestamp(frame))
    => IF BlankFields(frame, schema) # { }
       THEN /\ res.raised = InvalidValueError
            /\ res.key = frame[Min(BlankFields(frame, schema))].k
            /\ pc = "failed"
            /\ err = InvalidValueError
            /\ ingested = << >>
       ELSE res.raised = NoError

C1_Witness ==
  /\ Called
  /\ HasTimestamp(frame)
  /\ pc = "failed"
  /\ \E i \in BlankFields(frame, schema) : frame[i].v # << >>
  /\ \E i \in DOMAIN frame : frame[i].k \in DOMAIN schema /\ ~Blank(frame[i].v)

----------------------------------------------------------------------------
(* C2 *)

\* C2: ingest is called at most once per run, on the file that ends with "# EOF",
\* after every category was dumped and converted; a failed dump or a frame without
\* timestamp ends the run in failure with no ingest call.
C2_IngestOnlyAfterAll ==
  /\ Len(ingested) <= 1
  /\ ingested # << >> =>
       /\ Len(dumped) = Len(METRICS)
       /\ \A c \in DOMAIN dumped : \A i \in DOMAIN dumped[c] : HasTimestamp(dumped[c][i])
       /\ ingested[1] = f
       /\ f # << >> /\ f[Len(f)] = EofLine
       /\ pc \in { "done", "failed" }
       /\ pc = "failed" => err = IngestError
  /\ err \in { DumpError, TimestampError } => pc = "failed" /\ ingested = << >>
  /\ (\E c \in DOMAIN dumped : \E i \in DOMAIN dumped[c] : ~HasTimestamp(dumped[c][i]))
       => pc \in { "convert", "failed" } /\ ingested = << >>

C2_Witness ==
  /\ pc = "done"
  /\ Len(ingested) = 1
  /\ Len(f) > 1
  /\ \A c \in DOMAIN dumped : dumped[c] # << >>

----------------------------------------------------------------------------
(* C3 *)

\* C3: in a run that starts with an empty WARNED, no key is warned about twice, and
\* once every category is converted each field name that is neither in its category's
\* schema nor ignored has exactly one warning, the other names none.
C3_OneWarningPerKey ==
  warnedAtStart = { } =>
    /\ \A i \in DOMAIN log : Warnings(log[i]) = 1
    /\ Converted =>
         { log[i] : i \in DOMAIN log } = UNION { UnknownKeysOf(c) : c \in DOMAIN dumped }

C3_Witness ==
  /\ pc = "done"
  /\ warnedAtStart = { }
  /\ Len(dumped[1]) = 2
  /\ Len(dumped[2]) = 2
  /\ \A c \in DOMAIN dumped : \A i \in DOMAIN dumped[c] : "Bogus" \in Keys(dumped[c][i])
  /\ Warnings("Bogus") = 1

----------------------------------------------------------------------------
(* C4 *)

\* C4: for a frame whose Timestamp is absent or empty convert_frame raises the
\* missing-timestamp error before it looks at any field: no line, no warning.
C4_MissingTimestamp ==
  (Called /\ ~HasTimestamp(frame))
    => /\ res.raised = TimestampError
       /\ res.converted = << >>
       /\ res.warnings = << >>
       /\ pc = "failed"
       /\ err = TimestampError

C4_Witness ==
  /\ Called
  /\ TIMESTAMP_KEY \in Keys(frame)
  /\ ~HasTimestamp(frame)
  /\ Keys(frame) \ IGNORED_KEYS # { }
  /\ res.raised = TimestampError

----------------------------------------------------------------------------
(* C5 *)

\* C5: the file handed to ingest is the lines of the categories in the order of
\* METRICS, each category's lines in the order of its frames, then one "# EOF"
\* line, which is the only one and the last.
C5_StreamOrder ==
  ingested # << >> =>
    /\ ingested[1] =
         Flatten([ c \in DOMAIN METRICS |-> LinesOf(dumped[c], METRICS[c].schema, prefix) ])
           \o << EofLine >>
    /\ { i \in DOMAIN ingested[1] : ingested[1][i].kind = "EOF" } = { Len(ingested[1]) }

C5_Witness ==
  /\ pc = "done"
  /\ Len(ingested[1]) >= 10
  /\ Len(dumped[1]) = 2
  /\ ingested[1][2].help = "IcmpInErrs"
  /\ ingested[1][Len(ingested[1]) - 2].help = "Usage"

----------------------------------------------------------------------------
(* C6 *)

\* The name the lines of source field k carry: prefix, "_" and the output name,
\* with "_" at the place of every "."
IsOutputName(name, pfx, sch, k) ==
  LET n == pfx \o << "_" >> \o sch[k].prometheus_key IN
  /\ Len(name) = Len(n)
  /\ \A i \in DOMAIN n : name[i] = IF n[i] = "." THEN "_" ELSE n[i]

\* lines is made of triples TYPE, HELP, VALUE of one name each
Triples(lines, pfx, sch) ==
  /\ Len(lines) % 3 = 0
  /\ \A j \in 0 .. (Len(lines) \div 3) - 1 :
       LET t == lines[3 * j + 1]
           h == lines[3 * j + 2]
           v == lines[3 * j + 3]
       IN /\ t.kind = "TYPE" /\ h.kind = "HELP" /\ v.kind = "VALUE"
          /\ h.help \in DOMAIN sch
          /\ t.type = (IF sch[h.help].metric_type = GAUGE THEN "gauge" ELSE "counter")
          /\ sch[h.help].metric_type \in { GAUGE, COUNTER }
          /\ IsOutputName(v.name, pfx, sch, h.help)
          /\ t.name = v.name /\ h.name = v.name

\* C6: the lines convert collects come in triples TYPE, HELP, VALUE of one name: the
\* type is the schema kind of the field, the description is the source field name,
\* the name is the sanitized prefix_outputName, and the timestamp of every VALUE line
\* is the Timestamp of the frame it comes from.
C6_Triples ==
  (pc = "convert" \/ Called) =>
    /\ Triples(converted, prefix, schema)
    /\ Triples(res.converted, prefix, schema)
    /\ \A i \in DOMAIN res.converted :
         res.converted[i].kind = "VALUE" =>
           \E j \in DOMAIN frame :
             frame[j].k = TIMESTAMP_KEY /\ frame[j].v = res.converted[i].timestamp

C6_Witness ==
  /\ pc = "convert"
  /\ Len(converted) >= 6
  /\ res.converted # << >>
  /\ "." \in { prefix[i] : i \in DOMAIN prefix }
  /\ { converted[i].type : i \in DOMAIN converted } = { "", "gauge", "counter" }
  /\ Cardinality({ converted[i].timestamp : i \in DOMAIN converted }) = 3

----------------------------------------------------------------------------
(* C7 *)

\* s[i..j] is the first whitespace-delimited token of s
IsFirstToken(s, i, j) ==
  /\ i \in DOMAIN s /\ j \in DOMAIN s /\ i <= j
  /\ \A m \in 1 .. i - 1 : s[m] \in Whitespace
  /\ \A m \in i .. j : s[m] \notin Whitespace
  /\ j = Len(s) \/ s[j + 1] \in Whitespace

StripTrailingPercent(t) ==
  IF t # << >> /\ t[Len(t)] = "%" THEN SubSeq(t, 1, Len(t) - 1) ELSE t

RECURSIVE WithoutPercent(_)
WithoutPercent(t) ==
  IF t = << >> THEN << >>
  ELSE IF Head(t) = "%" THEN WithoutPercent(Tail(t))
  ELSE << Head(t) >> \o WithoutPercent(Tail(t))

QuestionToZero(t) == [ m \in DOMAIN t |-> IF t[m] = "?" THEN "0" ELSE t[m] ]

\* C7 (as stated): the result is the first token with a trailing "%" stripped and "?"
\* replaced by "0", nothing else changed.
C7_TrailingPercentOnly ==
  pc = "valueDone" =>
    \A i, j \in DOMAIN raw :
      IsFirstToken(raw, i, j) =>
        /\ val.raised = NoError
        /\ val.val = QuestionToZero(StripTrailingPercent(SubSeq(raw, i, j)))

\* C7 (amended): the result is the first token with every "%" removed, wherever it
\* stands in the token, and every "?" replaced by "0", nothing else changed; what
\* follows the first token is discarded.
C7_EveryPercent ==
  pc = "valueDone" =>
    \A i, j \in DOMAIN raw :
      IsFirstToken(raw, i, j) =>
        /\ val.raised = NoError
        /\ val.val = QuestionToZero(WithoutPercent(SubSeq(raw, i, j)))

C7_Witness ==
  /\ pc = "valueDone"
  /\ \E i, j \in DOMAIN raw :
       /\ IsFirstToken(raw, i, j)
       /\ j < Len(raw)
       /\ raw[i] = "%"
       /\ val.val = << "5" >>

----------------------------------------------------------------------------
(* C8 *)

\* C8 (as stated): WARNED is empty again whenever do_import is entered.
C8_ResetEachRun == runs >= 1 => warnedAtStart = { }

\* C8 (amended): do_import never resets WARNED: entering do_import leaves the set as
\* the runs before left it, and a key warned about in an earlier run of the process
\* is not warned about again.
C8_NeverReset ==
  /\ [][runs' # runs => WARNED' = WARNED]_vars
  /\ [](warnedAtStart \subseteq WARNED)
  /\ [](\A i \in DOMAIN log : log[i] \notin warnedAtStart)

C8_Witness ==
  /\ runs = 2
  /\ Called
  /\ res.raised = NoError
  /\ \E i \in DOMAIN frame :
       /\ frame[i].k \in warnedAtStart
       /\ frame[i].k \notin DOMAIN schema
  /\ log = << >>

----------------------------------------------------------------------------
(* C10 *)

\* C10: a field that is not in the schema never raises and never yields a line; it
\* is warned about and added to WARNED only if it is neither ignored nor in WARNED
\* already; WARNED never holds an ignored key and never loses a member.
C10_UnknownFields ==
  /\ [][WARNED \subseteq WARNED']_vars
  /\ [](WARNED \cap IGNORED_KEYS = { })
  /\ [](Called =>
          /\ res.raised = InvalidValueError => res.key \in DOMAIN schema
          /\ HelpKeys(res.converted) \subseteq DOMAIN schema
          /\ \A i \in DOMAIN res.warnings :
               /\ res.warnings[i] \in Keys(frame) \ (DOMAIN schema \cup IGNORED_KEYS)
               /\ \A j \in DOMAIN res.warnings : res.warnings[j] = res.warnings[i] => j = i
          /\ res.raised = NoError =>
               Keys(frame) \ (DOMAIN schema \cup IGNORED_KEYS) \subseteq WARNED)

C10_Witness ==
  /\ Called
  /\ res.raised = NoError
  /\ "Datetime" \in Keys(frame)
  /\ "Bogus" \in Keys(frame)
  /\ WARNED = { "Bogus" }
  /\ res.converted = << >>

====
